---------------------------- MODULE Spec2Model ----------------------------
(***************************************************************************)
(* A model of src/dfa.py: the regex algebra _BasicRegex, the construction  *)
(* of a DFA (transition matrix, removal of unreachable states, synthesis   *)
(* of a regular expression by state elimination over a GNFA) and the       *)
(* membership test DFA.__call__.                                           *)
(*                                                                         *)
(* A Python str is a sequence of one-character strings, so that the text   *)
(* of a regex is built, compared and parsed character by character.  A     *)
(* Python list is a sequence; an index i of the program is position i + 1  *)
(* of the sequence (At).  A dict is a function on its set of keys.         *)
(***************************************************************************)
EXTENDS Integers, Sequences, FiniteSets, TLC

\* ------------------------------------------------------------------ bounds
\* Longest input handed to DFA.__call__.
MaxLen == 2
\* Most operations (star, concat, union) applied in one run of the regex algebra.
MaxOps == 3

\* The identifiers a definition may declare: `states` is a nonempty prefix
\* of StateIds, `alphabet` a prefix of Symbols, and the transition matrix
\* has at most four cells.
StateIds == <<"q0", "q1", "q2", "q3">>
Symbols == <<"a", "b">>
Shapes == {sh \in (1..Len(StateIds)) \X (0..Len(Symbols)) : sh[1] * sh[2] <= 4}
\* Ill-formed definitions are drawn with at most two states.
IllShapes == {sh \in Shapes : sh[1] <= 2}
\* Definitions with an incomplete transition list are drawn with at most
\* three states.
PartialShapes == {sh \in Shapes : sh[1] <= 3}
\* An identifier no definition declares, and a character no alphabet holds.
UndeclaredState == "qx"
UndeclaredSymbol == "?"

\* ------------------------------------------------------------ _Operation
Op_NO_OP == 0
Op_STAR == 1
Op_CONCAT == 2
Op_UNION == 3

\* ----------------------------------------------------------- _BasicRegex
EMPTY_LANGUAGE == <<"{", "}">>
EMPTY_STRING == <<"'", "'">>

\* _BasicRegex.__init__: the text is the symbol, no operation applied yet.
BasicRegex(symbol) == [string |-> symbol, loosest_binding |-> Op_NO_OP]

empty_language == BasicRegex(EMPTY_LANGUAGE)

empty_string == BasicRegex(EMPTY_STRING)

\* A variant of possibly_parenthesized that also wraps at equal precedence.
possibly_parenthesized_eager(regex, op) ==
    IF op <= regex.loosest_binding
    THEN <<"(">> \o regex.string \o <<")">>
    ELSE regex.string

possibly_parenthesized(regex, op) ==
    IF op < regex.loosest_binding
    THEN <<"(">> \o regex.string \o <<")">>
    ELSE regex.string

star(self) ==
    IF self.string = EMPTY_LANGUAGE
    THEN [self EXCEPT !.string = EMPTY_STRING]
    ELSE IF self.string # EMPTY_STRING
    THEN [string |-> possibly_parenthesized(self, Op_STAR) \o <<"*">>,
          loosest_binding |-> Op_STAR]
    ELSE self

\* A variant of concat whose last branch does not test self for the empty
\* language.
concat_unguarded(self, other) ==
    IF other.string = EMPTY_LANGUAGE
    THEN [string |-> EMPTY_LANGUAGE, loosest_binding |-> Op_NO_OP]
    ELSE IF self.string = EMPTY_STRING
    THEN [string |-> other.string, loosest_binding |-> other.loosest_binding]
    ELSE IF other.string # EMPTY_STRING
    THEN [string |-> possibly_parenthesized(self, Op_CONCAT)
                       \o possibly_parenthesized(other, Op_CONCAT),
          loosest_binding |-> Op_CONCAT]
    ELSE self

concat(self, other) ==
    IF other.string = EMPTY_LANGUAGE
    THEN [string |-> EMPTY_LANGUAGE, loosest_binding |-> Op_NO_OP]
    ELSE IF self.string = EMPTY_STRING
    THEN [string |-> other.string, loosest_binding |-> other.loosest_binding]
    ELSE IF self.string # EMPTY_LANGUAGE /\ other.string # EMPTY_STRING
    THEN [string |-> possibly_parenthesized(self, Op_CONCAT)
                       \o possibly_parenthesized(other, Op_CONCAT),
          loosest_binding |-> Op_CONCAT]
    ELSE self

union(self, other) ==
    IF self.string = EMPTY_LANGUAGE
    THEN [string |-> other.string, loosest_binding |-> other.loosest_binding]
    ELSE IF other.string # EMPTY_LANGUAGE
    THEN [string |-> possibly_parenthesized(self, Op_UNION)
                       \o <<"|">> \o possibly_parenthesized(other, Op_UNION),
          loosest_binding |-> Op_UNION]
    ELSE self

\* ------------------------------------------------- reading a regex text
\* The standard reading of a regex text: union '|' loosest, then
\* juxtaposition, then star '*'; parentheses group; '' is the empty string
\* and {} the empty language.  A tree is [op, sym, args]: "sym" (one
\* character), "eps", "empty", "star" (one argument), "cat" and "alt" (two
\* or more arguments, in text order).
Node(op, sym, args) == [op |-> op, sym |-> sym, args |-> args]

TSym(c) == Node("sym", c, <<>>)

TEps == Node("eps", "", <<>>)

TEmpty == Node("empty", "", <<>>)

MetaChars == {"(", ")", "|", "*", "'", "{", "}"}

NoParse == [ok |-> FALSE, tree |-> TEmpty, pos |-> 0]

Parsed(t, p) == [ok |-> TRUE, tree |-> t, pos |-> p]

RECURSIVE ParseUnion(_, _), ParseUnionRest(_, _, _), ParseConcat(_, _),
          ParseConcatRest(_, _, _), ParseStar(_, _), ParseStarRest(_, _, _),
          ParseAtom(_, _)

ParseAtom(s, i) ==
    IF i > Len(s) THEN NoParse
    ELSE IF s[i] = "("
    THEN LET r == ParseUnion(s, i + 1)
         IN IF r.ok /\ r.pos <= Len(s) /\ s[r.pos] = ")"
            THEN Parsed(r.tree, r.pos + 1)
            ELSE NoParse
    ELSE IF s[i] = "'"
    THEN IF i + 1 <= Len(s) /\ s[i + 1] = "'" THEN Parsed(TEps, i + 2) ELSE NoParse
    ELSE IF s[i] = "{"
    THEN IF i + 1 <= Len(s) /\ s[i + 1] = "}" THEN Parsed(TEmpty, i + 2) ELSE NoParse
    ELSE IF s[i] \in MetaChars THEN NoParse
    ELSE Parsed(TSym(s[i]), i + 1)

ParseStarRest(s, t, i) ==
    IF i <= Len(s) /\ s[i] = "*"
    THEN ParseStarRest(s, Node("star", "", <<t>>), i + 1)
    ELSE Parsed(t, i)

ParseStar(s, i) ==
    LET a == ParseAtom(s, i)
    IN IF a.ok THEN ParseStarRest(s, a.tree, a.pos) ELSE NoParse

ParseConcatRest(s, ts, i) ==
    IF i <= Len(s) /\ s[i] \notin {"|", ")"}
    THEN LET r == ParseStar(s, i)
         IN IF r.ok THEN ParseConcatRest(s, Append(ts, r.tree), r.pos) ELSE NoParse
    ELSE Parsed(IF Len(ts) = 1 THEN ts[1] ELSE Node("cat", "", ts), i)

ParseConcat(s, i) ==
    LET r == ParseStar(s, i)
    IN IF r.ok THEN ParseConcatRest(s, <<r.tree>>, r.pos) ELSE NoParse

ParseUnionRest(s, ts, i) ==
    IF i <= Len(s) /\ s[i] = "|"
    THEN LET r == ParseConcat(s, i + 1)
         IN IF r.ok THEN ParseUnionRest(s, Append(ts, r.tree), r.pos) ELSE NoParse
    ELSE Parsed(IF Len(ts) = 1 THEN ts[1] ELSE Node("alt", "", ts), i)

ParseUnion(s, i) ==
    LET r == ParseConcat(s, i)
    IN IF r.ok THEN ParseUnionRest(s, <<r.tree>>, r.pos) ELSE NoParse

\* The tree of a whole text; NoParse when the text is no regex.
Parse(s) ==
    LET r == ParseUnion(s, 1)
    IN IF r.ok /\ r.pos = Len(s) + 1 THEN r ELSE NoParse

\* The words of length <= k in the concatenation of two sets of words.
CatLang(L1, L2, k) == {w \in {u \o v : u \in L1, v \in L2} : Len(w) <= k}

RECURSIVE StarLang(_, _, _), Lang(_, _), CatAll(_, _, _), AltAll(_, _, _)

\* n rounds of  S := {<<>>} \cup S.L .
StarLang(L, k, n) ==
    IF n = 0 THEN {<<>>}
    ELSE {<<>>} \cup CatLang(StarLang(L, k, n - 1), L, k)

CatAll(ts, i, k) ==
    IF i > Len(ts) THEN {<<>>}
    ELSE CatLang(Lang(ts[i], k), CatAll(ts, i + 1, k), k)

AltAll(ts, i, k) ==
    IF i > Len(ts) THEN {}
    ELSE Lang(ts[i], k) \cup AltAll(ts, i + 1, k)

\* The words of length <= k that the tree denotes.
Lang(t, k) ==
    CASE t.op = "sym" -> IF k >= 1 THEN {<<t.sym>>} ELSE {}
      [] t.op = "eps" -> {<<>>}
      [] t.op = "empty" -> {}
      [] t.op = "star" -> StarLang(Lang(t.args[1], k), k, k)
      [] t.op = "cat" -> CatAll(t.args, 1, k)
      [] t.op = "alt" -> AltAll(t.args, 1, k)

\* ------------------------------------------------------ lists and dicts
\* list[i] for a program index i.
At(list, i) == list[i + 1]

\* The orders in which a set can be enumerated.
Orders(S) ==
    {f \in [1..Cardinality(S) -> S] : \A i, j \in 1..Cardinality(S) : f[i] = f[j] => i = j}

\* dict.pop(key) and dict.get(key, default) on a dict that is a function.
DictPop(dict, key) == [k \in DOMAIN dict \ {key} |-> dict[k]]

DictGet(dict, key, default) == IF key \in DOMAIN dict THEN dict[key] ELSE default

DictSet(dict, key, value) ==
    [k \in DOMAIN dict \cup {key} |-> IF k = key THEN value ELSE dict[k]]

\* dict(zip(items, count())): each item's index, the last one of a repeated item.
ZipCount(items) ==
    [v \in {items[i] : i \in 1..Len(items)} |->
        (CHOOSE i \in 1..Len(items) :
            items[i] = v /\ \A j \in (i + 1)..Len(items) : items[j] # v) - 1]

\* ---------------------------------------------------------- DFA.__init__
NoRegex == <<>>

NoSelf ==
    [alphabet |-> {}, syms_to_indices |-> <<>>, trans_matrix |-> <<>>,
     initial |-> 0, accepting |-> {}, regex |-> NoRegex]

\* The loop over `transitions`: each triple's three lookups, then the
\* assignment into the matrix.  A failed lookup is a KeyError.
RECURSIVE FillMatrix(_, _, _, _, _)
FillMatrix(trans_matrix, transitions, k, state_indices, sym_indices) ==
    IF k > Len(transitions) THEN [ok |-> TRUE, trans_matrix |-> trans_matrix]
    ELSE LET orig == transitions[k][1]
             sym == transitions[k][2]
             dest == transitions[k][3]
         IN IF orig \notin DOMAIN state_indices
               \/ sym \notin DOMAIN sym_indices
               \/ dest \notin DOMAIN state_indices
            THEN [ok |-> FALSE, trans_matrix |-> trans_matrix]
            ELSE LET i == state_indices[orig]
                     j == sym_indices[sym]
                 IN FillMatrix(
                        [trans_matrix EXCEPT ![i + 1][j + 1] = state_indices[dest]],
                        transitions, k + 1, state_indices, sym_indices)

\* A variant of BuildStore that skips the accepting states it cannot look up.
BuildStore_lenient(a) ==
    LET state_indices == ZipCount(a.states)
        sym_indices == ZipCount(a.alphabet)
        zeros == [i \in 1..Cardinality(DOMAIN state_indices) |->
                     [j \in 1..Len(a.alphabet) |-> 0]]
        filled == FillMatrix(zeros, a.transitions, 1, state_indices, sym_indices)
    IN IF ~filled.ok \/ a.initial \notin DOMAIN state_indices
       THEN [ok |-> FALSE, self |-> NoSelf]
       ELSE [ok |-> TRUE,
             self |-> [alphabet |-> {a.alphabet[j] : j \in 1..Len(a.alphabet)},
                       syms_to_indices |-> sym_indices,
                       trans_matrix |-> filled.trans_matrix,
                       initial |-> state_indices[a.initial],
                       accepting |-> {state_indices[q] :
                                        q \in a.accepting \cap DOMAIN state_indices},
                       regex |-> NoRegex]]

\* Lines 184-199: the attributes of self before pruning and synthesis, or
\* the KeyError of the first failed lookup.
BuildStore(a) ==
    LET state_indices == ZipCount(a.states)
        sym_indices == ZipCount(a.alphabet)
        zeros == [i \in 1..Cardinality(DOMAIN state_indices) |->
                     [j \in 1..Len(a.alphabet) |-> 0]]
        filled == FillMatrix(zeros, a.transitions, 1, state_indices, sym_indices)
    IN IF ~filled.ok
          \/ a.initial \notin DOMAIN state_indices
          \/ \E q \in a.accepting : q \notin DOMAIN state_indices
       THEN [ok |-> FALSE, self |-> NoSelf]
       ELSE [ok |-> TRUE,
             self |-> [alphabet |-> {a.alphabet[j] : j \in 1..Len(a.alphabet)},
                       syms_to_indices |-> sym_indices,
                       trans_matrix |-> filled.trans_matrix,
                       initial |-> state_indices[a.initial],
                       accepting |-> {state_indices[q] : q \in a.accepting},
                       regex |-> NoRegex]]

\* ------------------------------------------------ DFA._remove_unreachables
\* The traversal: pop the newest entry, mark it, push every destination of
\* its row that is not yet marked.
RECURSIVE Traverse(_, _, _)
Traverse(trans_matrix, queue, reachable) ==
    IF queue = <<>> THEN reachable
    ELSE LET orig == queue[Len(queue)]
             marked == reachable \cup {orig}
             pushed == SelectSeq(At(trans_matrix, orig), LAMBDA dest : dest \notin marked)
         IN Traverse(trans_matrix, SubSeq(queue, 1, Len(queue) - 1) \o pushed, marked)

Reachable(auto) == Traverse(auto.trans_matrix, <<auto.initial>>, {})

\* ----------------------------------------------------- DFA._update_states
\* The loop over new_states in the order `order`: the initial index and the
\* accepting set are renumbered, the rows are appended as they are.
RECURSIVE UpdateLoop(_, _, _, _, _)
UpdateLoop(auto, order, k, new_matrix, new_accepting) ==
    IF k > Len(order)
    THEN [auto EXCEPT !.trans_matrix = new_matrix, !.accepting = new_accepting]
    ELSE LET i == order[k]
             auto1 == IF i = auto.initial
                      THEN [auto EXCEPT !.initial = Len(new_matrix)]
                      ELSE auto
             acc1 == IF i \in auto.accepting
                     THEN new_accepting \cup {Len(new_matrix)}
                     ELSE new_accepting
         IN UpdateLoop(auto1, order, k + 1,
                       Append(new_matrix, At(auto.trans_matrix, i)), acc1)

update_states(auto, order) == UpdateLoop(auto, order, 1, <<>>, {})

\* --------------------------------------------------------- DFA._to_regex
\* Lines 141-156.  The label of the edge i -> to: the symbols of the
\* columns of row i that hold `to`, united in column order.
RECURSIVE EdgeLabel(_, _, _, _, _)
EdgeLabel(row, to, indices_to_syms, j, regex) ==
    IF j > Len(row) THEN regex
    ELSE EdgeLabel(row, to, indices_to_syms, j + 1,
                   IF row[j] = to
                   THEN union(regex, BasicRegex(<<indices_to_syms[j]>>))
                   ELSE regex)

\* reverse_edges[to].add(i) fails when a cell holds an index beyond the list.
GnfaIndexError(auto) ==
    \E i \in 1..Len(auto.trans_matrix) :
        \E j \in 1..Len(auto.trans_matrix[i]) :
            auto.trans_matrix[i][j] >= Len(auto.trans_matrix) + 2

BuildReverseEdges(auto) ==
    LET n == Len(auto.trans_matrix)
        start == n
        accept == n + 1
    IN [t \in 1..(n + 2) |->
           LET to == t - 1
           IN (IF to = 0 THEN {start} ELSE {})
              \cup (IF to = accept THEN auto.accepting ELSE {})
              \cup {i \in 0..(n - 1) :
                      \E j \in 1..Len(At(auto.trans_matrix, i)) :
                          At(auto.trans_matrix, i)[j] = to}]

BuildGnfaFunc(auto, indices_to_syms) ==
    LET n == Len(auto.trans_matrix)
        start == n
        accept == n + 1
        to_dict(i) ==
            LET row == At(auto.trans_matrix, i)
                dests == {row[j] : j \in 1..Len(row)}
                keys == dests \cup (IF i \in auto.accepting THEN {accept} ELSE {})
            IN [to \in keys |->
                   IF to = accept /\ i \in auto.accepting
                   THEN empty_string
                   ELSE EdgeLabel(row, to, indices_to_syms, 1, empty_language)]
    IN [t \in 1..(n + 2) |->
           IF t - 1 < n THEN to_dict(t - 1)
           ELSE IF t - 1 = start THEN (auto.initial :> empty_string)
           ELSE <<>>]

\* A variant of the loop of lines 169-176 without the copy of line 170:
\* a.concat(b).concat(...) changes `a` itself, which the next pass of the
\* loop then starts from.
RECURSIVE ElimInner_no_copy(_, _, _, _, _, _, _, _)
ElimInner_no_copy(gnfa_func, reverse_edges, rip, i, a, b, jOrder, k) ==
    IF k > Len(jOrder)
    THEN [gnfa_func |-> gnfa_func, reverse_edges |-> reverse_edges]
    ELSE LET j == jOrder[k]
             r == concat(concat(a, b), gnfa_func[rip + 1][j])
             present == j \in DOMAIN gnfa_func[i + 1]
             func1 == [gnfa_func EXCEPT ![i + 1] =
                          (j :> (IF present THEN union(@[j], r) ELSE r)) @@ @]
             rev1 == [reverse_edges EXCEPT ![j + 1] =
                          (IF present THEN @ ELSE @ \cup {i}) \ {rip}]
         IN ElimInner_no_copy(func1, rev1, rip, i, r, b, jOrder, k + 1)

\* A variant of the loop of lines 169-176 that unites in the other order:
\* the new contribution first, the existing label second.
RECURSIVE ElimInner_new_first(_, _, _, _, _, _, _, _)
ElimInner_new_first(gnfa_func, reverse_edges, rip, i, a, b, jOrder, k) ==
    IF k > Len(jOrder)
    THEN [gnfa_func |-> gnfa_func, reverse_edges |-> reverse_edges]
    ELSE LET j == jOrder[k]
             r == concat(concat(a, b), gnfa_func[rip + 1][j])
             present == j \in DOMAIN gnfa_func[i + 1]
             func1 == [gnfa_func EXCEPT ![i + 1] =
                          (j :> (IF present THEN union(r, @[j]) ELSE r)) @@ @]
             rev1 == [reverse_edges EXCEPT ![j + 1] =
                          (IF present THEN @ ELSE @ \cup {i}) \ {rip}]
         IN ElimInner_new_first(func1, rev1, rip, i, a, b, jOrder, k + 1)

\* Lines 169-176: for one predecessor i, whose edge into rip was `a`, the
\* loop over the keys of gnfa_func[rip] in the order jOrder.
RECURSIVE ElimInner(_, _, _, _, _, _, _, _)
ElimInner(gnfa_func, reverse_edges, rip, i, a, b, jOrder, k) ==
    IF k > Len(jOrder)
    THEN [gnfa_func |-> gnfa_func, reverse_edges |-> reverse_edges]
    ELSE LET j == jOrder[k]
             r == concat(concat(a, b), At(gnfa_func, rip)[j])
             present == j \in DOMAIN At(gnfa_func, i)
             func1 == [gnfa_func EXCEPT ![i + 1] =
                          DictSet(@, j, IF present THEN union(@[j], r) ELSE r)]
             rev1 == [reverse_edges EXCEPT ![j + 1] =
                          (IF present THEN @ ELSE @ \cup {i}) \ {rip}]
         IN ElimInner(func1, rev1, rip, i, a, b, jOrder, k + 1)

\* Lines 167-176: the loop over reverse_edges[rip] in the order iOrder.  The
\* pop of a missing edge i -> rip is a KeyError.
RECURSIVE ElimOuter(_, _, _, _, _, _, _)
ElimOuter(gnfa_func, reverse_edges, rip, b, iOrder, jOrder, k) ==
    IF k > Len(iOrder)
    THEN [ok |-> TRUE, gnfa_func |-> gnfa_func, reverse_edges |-> reverse_edges]
    ELSE LET i == iOrder[k]
         IN IF rip \notin DOMAIN At(gnfa_func, i)
            THEN [ok |-> FALSE, gnfa_func |-> gnfa_func, reverse_edges |-> reverse_edges]
            ELSE LET a == At(gnfa_func, i)[rip]
                     func1 == [gnfa_func EXCEPT ![i + 1] = DictPop(@, rip)]
                     inner == ElimInner(func1, reverse_edges, rip, i, a, b, jOrder, 1)
                 IN ElimOuter(inner.gnfa_func, inner.reverse_edges, rip, b,
                              iOrder, jOrder, k + 1)

\* Lines 165-166: the starred self loop of rip, popped, and rip discarded
\* from its own predecessors.
SelfLoop(gnfa_func, rip) == star(DictGet(At(gnfa_func, rip), rip, empty_language))

\* One pass of the loop of lines 164-176, for the state rip.
Eliminate(gnfa_func, reverse_edges, rip, iOrder, jOrder) ==
    LET b == SelfLoop(gnfa_func, rip)
        func1 == [gnfa_func EXCEPT ![rip + 1] = DictPop(@, rip)]
        rev1 == [reverse_edges EXCEPT ![rip + 1] = @ \ {rip}]
    IN ElimOuter(func1, rev1, rip, b, iOrder, jOrder, 1)

\* Line 177.
FinalRegex(gnfa_func) ==
    LET start == Len(gnfa_func) - 2
        accept == Len(gnfa_func) - 1
    IN DictGet(At(gnfa_func, start), accept, empty_language).string

\* ------------------------------------------- _to_regex on regex objects
\* The same lines with the _BasicRegex objects told apart.  `heap` gives
\* each object its attributes; an object is named by the line that created
\* it, the pass of the loop of line 164 (0 before the loop) and the edge it
\* was created for.  A dict of gnfa_func holds, per key, the name of its
\* object.
ObjId(line, pass, i, j) == <<line, pass, i, j>>

NoObjects == <<>>

\* _BasicRegex(...), empty_language(), empty_string(): a new object.
ObjNew(heap, id, regex) == (id :> regex) @@ heap

\* A variant of line 170 without copy(): the "copy" is the object a itself.
ObjCopy_alias(heap, id, a) == [heap |-> heap, id |-> a]

\* copy(a): a new object with the attributes of a.
ObjCopy(heap, id, a) == [heap |-> (id :> heap[a]) @@ heap, id |-> id]

\* star, concat and union assign self._string and self._loosest_binding of
\* the receiver and nothing else (lines 51-55, 61-72, 78-84).
ObjStar(heap, me) == [heap EXCEPT ![me] = star(@)]

ObjConcat(heap, me, other) == [heap EXCEPT ![me] = concat(@, heap[other])]

ObjUnion(heap, me, other) == [heap EXCEPT ![me] = union(@, heap[other])]

\* The objects some dict of gnfa_func refers to.
Referenced(objs) ==
    UNION {{objs[t][j] : j \in DOMAIN objs[t]} : t \in 1..Len(objs)}

\* Objects no dict refers to any more are dropped.
Collect(heap, objs) == [id \in Referenced(objs) |-> heap[id]]

\* Lines 148-152 for row i: setdefault creates the object of a new key,
\* and the object of the key is united with a new object for the symbol.
RECURSIVE ObjRow(_, _, _, _, _, _)
ObjRow(heap, to_dict, i, row, indices_to_syms, j) ==
    IF j > Len(row) THEN [heap |-> heap, to_dict |-> to_dict]
    ELSE LET to == row[j]
             present == to \in DOMAIN to_dict
             heap1 == IF present THEN heap
                      ELSE ObjNew(heap, ObjId(151, 0, i, to), empty_language)
             dict1 == IF present THEN to_dict
                      ELSE DictSet(to_dict, to, ObjId(151, 0, i, to))
             sym == ObjId(152, 0, i, j - 1)
             heap2 == ObjNew(heap1, sym, BasicRegex(<<indices_to_syms[j]>>))
         IN ObjRow(ObjUnion(heap2, dict1[to], sym), dict1, i, row,
                   indices_to_syms, j + 1)

\* Lines 146-155, from row i on.
RECURSIVE ObjRows(_, _, _, _, _)
ObjRows(heap, objs, auto, indices_to_syms, i) ==
    IF i = Len(auto.trans_matrix) THEN [heap |-> heap, objs |-> objs]
    ELSE LET accept == Len(auto.trans_matrix) + 1
             row == ObjRow(heap, <<>>, i, At(auto.trans_matrix, i), indices_to_syms, 1)
             accepting == i \in auto.accepting
             heap1 == IF accepting
                      THEN ObjNew(row.heap, ObjId(154, 0, i, accept), empty_string)
                      ELSE row.heap
             dict1 == IF accepting
                      THEN DictSet(row.to_dict, accept, ObjId(154, 0, i, accept))
                      ELSE row.to_dict
         IN ObjRows(heap1, Append(objs, dict1), auto, indices_to_syms, i + 1)

\* Lines 145-156.
ObjBuild(auto, indices_to_syms) ==
    LET start == Len(auto.trans_matrix)
        rows == ObjRows(NoObjects, <<>>, auto, indices_to_syms, 0)
        first == ObjId(156, 0, start, auto.initial)
        objs == rows.objs \o <<(auto.initial :> first), <<>>>>
    IN [heap |-> Collect(ObjNew(rows.heap, first, empty_string), objs),
        objs |-> objs]

\* Lines 169-176 for the predecessor i, whose popped edge object is a; b
\* is the starred self loop.  `stable` records that at every use b had the
\* attributes b0 and the object of the edge rip -> j the attributes it had
\* in func0, the edge function when the pass began.
RECURSIVE ObjInner(_, _, _, _, _, _, _, _, _, _, _)
ObjInner(heap, objs, rip, i, a, b, jOrder, k, b0, func0, stable) ==
    IF k > Len(jOrder)
    THEN [heap |-> heap, objs |-> objs, stable |-> stable]
    ELSE LET j == jOrder[k]
             out == At(objs, rip)[j]
             c == ObjCopy(heap, ObjId(170, rip + 1, i, j), a)
             r == c.id
             heap1 == ObjConcat(ObjConcat(c.heap, r, b), r, out)
             present == j \in DOMAIN At(objs, i)
             heap2 == IF present THEN ObjUnion(heap1, At(objs, i)[j], r) ELSE heap1
             objs1 == IF present THEN objs
                      ELSE [objs EXCEPT ![i + 1] = DictSet(@, j, r)]
         IN ObjInner(heap2, objs1, rip, i, a, b, jOrder, k + 1, b0, func0,
                     stable /\ heap[b] = b0 /\ heap[out] = At(func0, rip)[j])

\* Lines 167-176.
RECURSIVE ObjOuter(_, _, _, _, _, _, _, _, _, _)
ObjOuter(heap, objs, rip, b, iOrder, jOrder, k, b0, func0, stable) ==
    IF k > Len(iOrder)
    THEN [ok |-> TRUE, heap |-> heap, objs |-> objs, stable |-> stable]
    ELSE LET i == iOrder[k]
         IN IF rip \notin DOMAIN At(objs, i)
            THEN [ok |-> FALSE, heap |-> heap, objs |-> objs, stable |-> stable]
            ELSE LET a == At(objs, i)[rip]
                     objs1 == [objs EXCEPT ![i + 1] = DictPop(@, rip)]
                     inner == ObjInner(heap, objs1, rip, i, a, b, jOrder, 1,
                                       b0, func0, stable)
                 IN ObjOuter(inner.heap, inner.objs, rip, b, iOrder, jOrder,
                             k + 1, b0, func0, inner.stable)

\* One pass of the loop of lines 164-176 on the objects; func0 is the edge
\* function (labels by value) when the pass begins.
ObjEliminate(heap, objs, rip, iOrder, jOrder, func0) ==
    LET own == rip \in DOMAIN At(objs, rip)
        b == IF own THEN At(objs, rip)[rip] ELSE ObjId(165, rip + 1, rip, rip)
        heap1 == ObjStar(IF own THEN heap ELSE ObjNew(heap, b, empty_language), b)
        objs1 == [objs EXCEPT ![rip + 1] = DictPop(@, rip)]
        res == ObjOuter(heap1, objs1, rip, b, iOrder, jOrder, 1, heap1[b], func0, TRUE)
    IN [ok |-> res.ok, heap |-> Collect(res.heap, res.objs), objs |-> res.objs,
        stable |-> res.stable]

\* ---------------------------------------------------------- DFA.__call__
\* The outcome of a call: "return" with the boolean, "ValueError" naming
\* the symbol that is not in the alphabet, or "IndexError" when the current
\* state is no row of the matrix; `read` counts the elements taken from s.
Outcome(kind, value, sym, read) ==
    [kind |-> kind, value |-> value, sym |-> sym, read |-> read]

NoOutcome == Outcome("none", FALSE, "", 0)

RECURSIVE CallLoop(_, _, _, _)
CallLoop(auto, s, k, state) ==
    IF k > Len(s) THEN Outcome("return", state \in auto.accepting, "", Len(s))
    ELSE LET sym == s[k]
         IN IF state >= Len(auto.trans_matrix)
            THEN Outcome("IndexError", FALSE, "", k)
            ELSE IF sym \notin DOMAIN auto.syms_to_indices
            THEN Outcome("ValueError", FALSE, sym, k)
            ELSE CallLoop(auto, s, k + 1,
                          At(At(auto.trans_matrix, state), auto.syms_to_indices[sym]))

call_dfa(auto, s) == CallLoop(auto, s, 1, auto.initial)

\* A variant of __call__ that keeps its current state in self._initial
\* instead of a local: a call that returns leaves the state its first step
\* reached there.
CallEffect_in_place(auto, s) ==
    IF call_dfa(auto, s).kind = "return" /\ Len(s) > 0 /\ Len(auto.trans_matrix) > 0
    THEN [auto EXCEPT !.initial =
             At(At(auto.trans_matrix, auto.initial), auto.syms_to_indices[s[1]])]
    ELSE auto

\* __call__ assigns no attribute of self.
CallEffect(auto, s) == auto

\* DFA.__repr__
repr(auto) == auto.regex

\* ------------------------------------------------------------------ state
VARIABLES
    args,           \* the arguments of DFA(...): states, alphabet, transitions,
                    \* initial, accepting, optimize
    pc,             \* where the constructor stands: "init", "prune", "gnfa",
                    \* "elim", "done" (the automaton exists), "error" (it raised)
    error,          \* the exception the constructor raised, "" if none
    self,           \* the attributes of the automaton
    order,          \* the order in which _update_states enumerated new_states
    reverse_edges,  \* _to_regex's local: the predecessors of each GNFA state
    gnfa_func,      \* _to_regex's local: one dict of labelled edges per GNFA state
    rip,            \* _to_regex's loop variable
    built,          \* history: the automaton as it was when the constructor returned
    call,           \* the last call of the automaton: its input and its outcome
    stack,          \* regex algebra runs: the expressions held, each with the
                    \* tree of the operations that built it
    nops,           \* regex algebra runs: operations applied so far
    last,           \* regex algebra runs: the last operation and its operands
    queue,          \* traversal runs: _remove_unreachables' work stack
    reachable,      \* traversal runs: _remove_unreachables' set of visited states
    pops,           \* traversal runs: passes of the while loop made so far
    objects,        \* _to_regex: the attributes of each live _BasicRegex object
    gnfa_objs,      \* _to_regex: gnfa_func with the name of each label's object
    stable          \* _to_regex: in the last pass, b and the labels of the edges
                    \* leaving rip had the same attributes at every use

vars == <<args, pc, error, self, order, reverse_edges, gnfa_func, rip, built,
          call, stack, nops, last, queue, reachable, pops, objects, gnfa_objs,
          stable>>

dfaVars == <<args, pc, error, self, order, reverse_edges, gnfa_func, rip, built, call>>

algebraVars == <<stack, nops, last>>

traversalVars == <<queue, reachable, pops>>

objectVars == <<objects, gnfa_objs, stable>>

\* ------------------------------------------------------ the definitions
Range(seq) == {seq[i] : i \in 1..Len(seq)}

\* Every complete transition list over the declared states and symbols: one
\* triple per (state, symbol) pair, state by state.
CompleteTransitions(states, alphabet) ==
    LET n == Len(states)
        m == Len(alphabet)
    IN {[p \in 1..(n * m) |->
            <<states[((p - 1) \div m) + 1], alphabet[((p - 1) % m) + 1], dest[p]>>] :
        dest \in [1..(n * m) -> Range(states)]}

Definition(states, alphabet, transitions, initial, accepting, optimize) ==
    [states |-> states, alphabet |-> alphabet, transitions |-> transitions,
     initial |-> initial, accepting |-> accepting, optimize |-> optimize]

\* All references declared, one transition per (state, symbol) pair.
IsWellFormed(a) ==
    LET n == Len(a.states)
        m == Len(a.alphabet)
    IN /\ a.initial \in Range(a.states)
       /\ a.accepting \subseteq Range(a.states)
       /\ Len(a.transitions) = n * m
       /\ \A p \in 1..(n * m) :
            /\ a.transitions[p][1] = a.states[((p - 1) \div m) + 1]
            /\ a.transitions[p][2] = a.alphabet[((p - 1) % m) + 1]
            /\ a.transitions[p][3] \in Range(a.states)

\* Some reference of the definition is to an undeclared state or symbol.
HasUndeclared(a) ==
    \/ a.initial \notin Range(a.states)
    \/ \E k \in 1..Len(a.transitions) :
         \/ a.transitions[k][1] \notin Range(a.states)
         \/ a.transitions[k][2] \notin Range(a.alphabet)
         \/ a.transitions[k][3] \notin Range(a.states)
    \/ \E q \in a.accepting : q \notin Range(a.states)

\* The definitions that differ from the well-formed `a` by one undeclared
\* reference: the initial state, one accepting state, or one field of one
\* transition triple.
IllFormed(a) ==
    {[a EXCEPT !.initial = UndeclaredState],
     [a EXCEPT !.accepting = @ \cup {UndeclaredState}]}
    \cup {[a EXCEPT !.transitions[k][f] =
              IF f = 2 THEN UndeclaredSymbol ELSE UndeclaredState] :
            k \in 1..Len(a.transitions), f \in 1..3}

\* The triples of a list at the positions of K, in the order of the list.
SubList(list, K) ==
    LET kept[i \in 0..Len(list)] ==
            IF i = 0 THEN <<>>
            ELSE IF i \in K THEN Append(kept[i - 1], list[i])
            ELSE kept[i - 1]
    IN kept[Len(list)]

\* The definitions that differ from the well-formed `a` by the absence of
\* one or more transition triples.
Incomplete(a) ==
    {[a EXCEPT !.transitions = SubList(a.transitions, K)] :
        K \in (SUBSET (1..Len(a.transitions))) \ {1..Len(a.transitions)}}

\* The inputs of a call: the words of length <= MaxLen over the declared
\* alphabet and one character that is not in it.
Inputs(alphabet) ==
    UNION {[1..n -> Range(alphabet) \cup {UndeclaredSymbol}] : n \in 0..MaxLen}

NoCall == [s |-> <<>>, outcome |-> NoOutcome]

NoLast == [op |-> "none", operands |-> <<>>]

\* ------------------------------------------------------------- DFA(...)
Init ==
    /\ \E sh \in Shapes :
         LET states == SubSeq(StateIds, 1, sh[1])
             alphabet == SubSeq(Symbols, 1, sh[2])
         IN \E transitions \in CompleteTransitions(states, alphabet),
               initial \in Range(states), accepting \in SUBSET Range(states),
               optimize \in BOOLEAN :
                LET a == Definition(states, alphabet, transitions, initial,
                                    accepting, optimize)
                IN args \in {a} \cup (IF sh \in IllShapes THEN IllFormed(a) ELSE {})
                              \cup (IF sh \in PartialShapes THEN Incomplete(a) ELSE {})
    /\ pc = "init"
    /\ error = ""
    /\ self = NoSelf
    /\ order = <<>>
    /\ reverse_edges = <<>>
    /\ gnfa_func = <<>>
    /\ rip = 0
    /\ built = NoSelf
    /\ call = NoCall
    /\ stack = <<>>
    /\ nops = 0
    /\ last = NoLast
    /\ queue = <<>>
    /\ reachable = {}
    /\ pops = 0
    /\ objects = NoObjects
    /\ gnfa_objs = <<>>
    /\ stable = TRUE

\* The constructor raised: no automaton.
Raise(kind) ==
    /\ pc' = "error"
    /\ error' = kind
    /\ self' = NoSelf
    /\ reverse_edges' = <<>>
    /\ gnfa_func' = <<>>
    /\ objects' = NoObjects
    /\ gnfa_objs' = <<>>
    /\ UNCHANGED stable

\* Lines 184-199, a lookup failing.
StoreFails ==
    /\ pc = "init"
    /\ ~BuildStore(args).ok
    /\ Raise("KeyError")
    /\ UNCHANGED <<args, order, rip, built, call, algebraVars, traversalVars>>

\* Lines 184-201.
StoreBuilt ==
    /\ pc = "init"
    /\ BuildStore(args).ok
    /\ self' = BuildStore(args).self
    /\ pc' = IF args.optimize THEN "prune" ELSE "gnfa"
    /\ UNCHANGED <<args, error, order, reverse_edges, gnfa_func, rip, built, call,
                   algebraVars, traversalVars, objectVars>>

\* Line 202: _remove_unreachables, which ends in _update_states; the set
\* `reachable` is enumerated in some order.
RemoveUnreachables ==
    /\ pc = "prune"
    /\ \E ord \in Orders(Reachable(self)) :
         /\ order' = ord
         /\ self' = update_states(self, ord)
    /\ pc' = "gnfa"
    /\ UNCHANGED <<args, error, reverse_edges, gnfa_func, rip, built, call, algebraVars,
                   traversalVars, objectVars>>

\* Lines 141-156, reverse_edges[to] beyond the end of the list.
GnfaFails ==
    /\ pc = "gnfa"
    /\ GnfaIndexError(self)
    /\ Raise("IndexError")
    /\ UNCHANGED <<args, order, rip, built, call, algebraVars, traversalVars>>

\* Lines 141-156.
GnfaBuilt ==
    /\ pc = "gnfa"
    /\ ~GnfaIndexError(self)
    /\ reverse_edges' = BuildReverseEdges(self)
    /\ gnfa_func' = BuildGnfaFunc(self, args.alphabet)
    /\ rip' = 0
    /\ pc' = "elim"
    /\ UNCHANGED <<args, error, self, order, built, call, algebraVars, traversalVars,
                   objectVars>>

\* Lines 164-176 for one rip: the predecessors of rip and the keys of
\* gnfa_func[rip] are each enumerated in some order.
ElimStep ==
    /\ pc = "elim"
    /\ rip < Len(self.trans_matrix)
    /\ \E iOrder \in Orders(At(reverse_edges, rip) \ {rip}),
          jOrder \in Orders(DOMAIN At(gnfa_func, rip) \ {rip}) :
         LET res == Eliminate(gnfa_func, reverse_edges, rip, iOrder, jOrder)
         IN IF res.ok
            THEN /\ gnfa_func' = res.gnfa_func
                 /\ reverse_edges' = res.reverse_edges
                 /\ rip' = rip + 1
                 /\ UNCHANGED <<pc, error, self, objectVars>>
            ELSE /\ Raise("KeyError")
                 /\ UNCHANGED rip
    /\ UNCHANGED <<args, order, built, call, algebraVars, traversalVars>>

\* Lines 177 and 203: the text is stored and the constructor returns.
Finish ==
    /\ pc = "elim"
    /\ rip = Len(self.trans_matrix)
    /\ self' = [self EXCEPT !.regex = FinalRegex(gnfa_func)]
    /\ built' = self'
    /\ pc' = "done"
    /\ reverse_edges' = <<>>
    /\ gnfa_func' = <<>>
    /\ objects' = NoObjects
    /\ gnfa_objs' = <<>>
    /\ UNCHANGED <<args, error, order, rip, call, stable, algebraVars, traversalVars>>

\* Lines 222-233: a call of the automaton on the input s.
Call ==
    /\ pc = "done"
    /\ \E s \in Inputs(args.alphabet) :
         /\ call' = [s |-> s, outcome |-> call_dfa(self, s)]
         /\ self' = CallEffect(self, s)
    /\ UNCHANGED <<args, pc, error, order, reverse_edges, gnfa_func, rip, built,
                   algebraVars, traversalVars, objectVars>>

Next ==
    \/ StoreFails
    \/ StoreBuilt
    \/ RemoveUnreachables
    \/ GnfaFails
    \/ GnfaBuilt
    \/ ElimStep
    \/ Finish
    \/ Call

Spec == Init /\ [][Next]_vars

\* ------------------------------------------------ runs of the regex algebra
\* The tree of the operations that built an expression: star, concat and
\* union with the sentinels absorbed, and a concat of concats (a union of
\* unions) written as one node, as juxtaposition and '|' are associative.
TreeArgs(t, op) == IF t.op = op THEN t.args ELSE <<t>>

TreeStar(t) ==
    IF t \in {TEmpty, TEps} THEN TEps ELSE Node("star", "", <<t>>)

TreeConcat(t, u) ==
    IF t = TEmpty \/ u = TEmpty THEN TEmpty
    ELSE IF t = TEps THEN u
    ELSE IF u = TEps THEN t
    ELSE Node("cat", "", TreeArgs(t, "cat") \o TreeArgs(u, "cat"))

TreeUnion(t, u) ==
    IF t = TEmpty THEN u
    ELSE IF u = TEmpty THEN t
    ELSE Node("alt", "", TreeArgs(t, "alt") \o TreeArgs(u, "alt"))

Expr(regex, tree) == [regex |-> regex, tree |-> tree]

\* What a run starts from: a single-character symbol or a sentinel.
Atoms ==
    {Expr(BasicRegex(<<c>>), TSym(c)) : c \in Range(Symbols)}
    \cup {Expr(empty_language, TEmpty), Expr(empty_string, TEps)}

NoArgs == Definition(<<>>, <<>>, <<>>, "", {}, FALSE)

InitAlgebra ==
    /\ stack = <<>>
    /\ nops = 0
    /\ last = NoLast
    /\ args = NoArgs
    /\ pc = "algebra"
    /\ error = ""
    /\ self = NoSelf
    /\ order = <<>>
    /\ reverse_edges = <<>>
    /\ gnfa_func = <<>>
    /\ rip = 0
    /\ built = NoSelf
    /\ call = NoCall
    /\ queue = <<>>
    /\ reachable = {}
    /\ pops = 0
    /\ objects = NoObjects
    /\ gnfa_objs = <<>>
    /\ stable = TRUE

Top == stack[Len(stack)]

\* A new operand; every operand held beyond the first still needs an
\* operation to be combined.
Push ==
    /\ Len(stack) + nops <= MaxOps
    /\ \E e \in Atoms : stack' = Append(stack, e)
    /\ last' = [op |-> "push", operands |-> <<>>]
    /\ UNCHANGED <<nops, dfaVars, traversalVars, objectVars>>

ApplyStar ==
    /\ Len(stack) >= 1
    /\ nops < MaxOps
    /\ stack' = [stack EXCEPT ![Len(stack)] =
                    Expr(star(Top.regex), TreeStar(Top.tree))]
    /\ last' = [op |-> "star", operands |-> <<Top>>]
    /\ nops' = nops + 1
    /\ UNCHANGED <<dfaVars, traversalVars, objectVars>>

ApplyConcat ==
    /\ Len(stack) >= 2
    /\ nops < MaxOps
    /\ LET me == stack[Len(stack) - 1]
           other == Top
       IN /\ stack' = Append(SubSeq(stack, 1, Len(stack) - 2),
                             Expr(concat(me.regex, other.regex),
                                  TreeConcat(me.tree, other.tree)))
          /\ last' = [op |-> "concat", operands |-> <<me, other>>]
    /\ nops' = nops + 1
    /\ UNCHANGED <<dfaVars, traversalVars, objectVars>>

ApplyUnion ==
    /\ Len(stack) >= 2
    /\ nops < MaxOps
    /\ LET me == stack[Len(stack) - 1]
           other == Top
       IN /\ stack' = Append(SubSeq(stack, 1, Len(stack) - 2),
                             Expr(union(me.regex, other.regex),
                                  TreeUnion(me.tree, other.tree)))
          /\ last' = [op |-> "union", operands |-> <<me, other>>]
    /\ nops' = nops + 1
    /\ UNCHANGED <<dfaVars, traversalVars, objectVars>>

NextAlgebra ==
    \/ Push
    \/ ApplyStar
    \/ ApplyConcat
    \/ ApplyUnion

SpecAlgebra == InitAlgebra /\ [][NextAlgebra]_vars

\* --------------------------------- the constructor on the regex objects
\* The constructor with the _BasicRegex objects of _to_regex told apart:
\* beside the labels (gnfa_func) the run keeps the object of every label
\* (gnfa_objs) and the attributes of every object (objects).  The
\* definitions are the complete ones with at most three states; the
\* automaton is not called.
InitObjects ==
    /\ Init
    /\ IsWellFormed(args)
    /\ <<Len(args.states), Len(args.alphabet)>> \in PartialShapes

\* Lines 141-156.
ObjGnfaBuilt ==
    /\ pc = "gnfa"
    /\ ~GnfaIndexError(self)
    /\ reverse_edges' = BuildReverseEdges(self)
    /\ gnfa_func' = BuildGnfaFunc(self, args.alphabet)
    /\ LET obj == ObjBuild(self, args.alphabet)
       IN /\ objects' = obj.heap
          /\ gnfa_objs' = obj.objs
    /\ rip' = 0
    /\ pc' = "elim"
    /\ UNCHANGED <<args, error, self, order, built, call, stable, algebraVars,
                   traversalVars>>

\* Lines 164-176 for one rip.
ObjElimStep ==
    /\ pc = "elim"
    /\ rip < Len(self.trans_matrix)
    /\ \E iOrder \in Orders(At(reverse_edges, rip) \ {rip}),
          jOrder \in Orders(DOMAIN At(gnfa_func, rip) \ {rip}) :
         LET res == Eliminate(gnfa_func, reverse_edges, rip, iOrder, jOrder)
             obj == ObjEliminate(objects, gnfa_objs, rip, iOrder, jOrder, gnfa_func)
         IN IF obj.ok
            THEN /\ gnfa_func' = res.gnfa_func
                 /\ reverse_edges' = res.reverse_edges
                 /\ objects' = obj.heap
                 /\ gnfa_objs' = obj.objs
                 /\ stable' = obj.stable
                 /\ rip' = rip + 1
                 /\ UNCHANGED <<pc, error, self>>
            ELSE /\ Raise("KeyError")
                 /\ UNCHANGED rip
    /\ UNCHANGED <<args, order, built, call, algebraVars, traversalVars>>

NextObjects ==
    \/ StoreBuilt
    \/ RemoveUnreachables
    \/ ObjGnfaBuilt
    \/ ObjElimStep
    \/ Finish

SpecObjects == InitObjects /\ [][NextObjects]_vars

\* ------------------------------------- runs of the reachability traversal
\* The loop of _remove_unreachables pass by pass, on the store of a
\* definition whose matrix has at most six cells.
TraversalShapes ==
    {sh \in (1..Len(StateIds)) \X (0..Len(Symbols)) : sh[1] * sh[2] <= 6}

\* Lines 129-130: the store is built; the stack holds the initial index.
InitTraversal ==
    /\ \E sh \in TraversalShapes :
         LET states == SubSeq(StateIds, 1, sh[1])
             alphabet == SubSeq(Symbols, 1, sh[2])
         IN \E transitions \in CompleteTransitions(states, alphabet),
               initial \in Range(states) :
                args = Definition(states, alphabet, transitions, initial, {}, TRUE)
    /\ self = BuildStore(args).self
    /\ pc = "traverse"
    /\ queue = <<self.initial>>
    /\ reachable = {}
    /\ pops = 0
    /\ objects = NoObjects
    /\ gnfa_objs = <<>>
    /\ stable = TRUE
    /\ error = ""
    /\ order = <<>>
    /\ reverse_edges = <<>>
    /\ gnfa_func = <<>>
    /\ rip = 0
    /\ built = NoSelf
    /\ call = NoCall
    /\ stack = <<>>
    /\ nops = 0
    /\ last = NoLast

\* A variant of line 135 that pushes every destination, marked or not.
Unmarked_all(row, marked) == row

\* Lines 134-136: the destinations of the row that are pushed, in column
\* order: those not marked.
Unmarked(row, marked) == SelectSeq(row, LAMBDA dest : dest \notin marked)

\* Lines 131-136, one pass of the while loop: the newest entry is popped
\* and marked, the unmarked destinations of its row are pushed.
TraverseStep ==
    /\ pc = "traverse"
    /\ queue # <<>>
    /\ LET orig == queue[Len(queue)]
       IN /\ reachable' = reachable \cup {orig}
          /\ queue' = SubSeq(queue, 1, Len(queue) - 1)
                         \o Unmarked(At(self.trans_matrix, orig), reachable')
    /\ pops' = pops + 1
    /\ UNCHANGED <<args, pc, error, self, order, reverse_edges, gnfa_func, rip, built,
                   call, algebraVars, objectVars>>

\* Line 137: the stack is empty and the set goes to _update_states, which
\* enumerates it in some order.
TraverseDone ==
    /\ pc = "traverse"
    /\ queue = <<>>
    /\ \E ord \in Orders(reachable) :
         /\ order' = ord
         /\ self' = update_states(self, ord)
    /\ pc' = "pruned"
    /\ UNCHANGED <<args, error, reverse_edges, gnfa_func, rip, built, call, algebraVars,
                   traversalVars, objectVars>>

NextTraversal ==
    \/ TraverseStep
    \/ TraverseDone

\* A loop that can make its next pass makes it.
SpecTraversal == InitTraversal /\ [][NextTraversal]_vars /\ WF_vars(NextTraversal)

\* ------------------------------------------------- claims about the DFA
\* A call has been made, on a word over the declared alphabet.
Called == call.outcome.kind # "none"

CalledOnWord == Called /\ Range(call.s) \subseteq Range(args.alphabet)

\* The call returned True.
Accepted(outcome) == outcome.kind = "return" /\ outcome.value

\* The words of length <= MaxLen that a regex text matches.
Matches(text) == Lang(Parse(text).tree, MaxLen)

\* The run of the declared transition triples over s, from the state q.
RECURSIVE DeclaredRun(_, _, _, _)
DeclaredRun(a, s, k, q) ==
    IF k > Len(s) THEN q
    ELSE LET t == CHOOSE t \in Range(a.transitions) : t[1] = q /\ t[2] = s[k]
         IN DeclaredRun(a, s, k + 1, t[3])

DeclaredAccepts(a, s) == DeclaredRun(a, s, 1, a.initial) \in a.accepting

\* ------------------------------------------------------------------ C1
\* C1: for a well-formed definition, a call on a word over the alphabet
\* returns True if and only if the word is matched by the text that
\* to_regex_text returns, read with the standard semantics.
C1_LanguageEquivalence ==
    (pc = "done" /\ IsWellFormed(args) /\ CalledOnWord) =>
        /\ Parse(repr(self)).ok
        /\ Accepted(call.outcome) <=> call.s \in Matches(repr(self))

\* ------------------------------------------------------------------ C2
\* C2: for a well-formed definition, whichever declared state is initial
\* and with pruning on or off, the constructor raises no error.
C2_SynthesisTotal ==
    IsWellFormed(args) => pc # "error"

\* ------------------------------------------------------------------ C3
\* C3: for a constructed automaton, with pruning or without, a call on a
\* word over the alphabet returns True exactly when the run of the declared
\* transition triples from the declared initial state ends in a declared
\* accepting state.
C3_AcceptsIsDeclaredRun ==
    (pc = "done" /\ IsWellFormed(args) /\ CalledOnWord) =>
        /\ call.outcome.kind = "return"
        /\ call.outcome.value = DeclaredAccepts(args, call.s)

\* ------------------------------------------------------------------ C4
\* The whole loop of lines 164-176, each set enumerated in the order CHOOSE
\* gives, and line 177.
RECURSIVE RipAll(_, _, _, _)
RipAll(func, rev, r, n) ==
    IF r = n THEN [ok |-> TRUE, regex |-> FinalRegex(func)]
    ELSE LET iOrder == CHOOSE o \in Orders(At(rev, r) \ {r}) : TRUE
             jOrder == CHOOSE o \in Orders(DOMAIN At(func, r) \ {r}) : TRUE
             res == Eliminate(func, rev, r, iOrder, jOrder)
         IN IF res.ok THEN RipAll(res.gnfa_func, res.reverse_edges, r + 1, n)
            ELSE [ok |-> FALSE, regex |-> NoRegex]

\* The automaton that DFA(..., optimize=False) builds from the definition.
Unpruned(a) ==
    LET store == BuildStore(a)
        synth == IF store.ok /\ ~GnfaIndexError(store.self)
                 THEN RipAll(BuildGnfaFunc(store.self, a.alphabet),
                             BuildReverseEdges(store.self), 0,
                             Len(store.self.trans_matrix))
                 ELSE [ok |-> FALSE, regex |-> NoRegex]
    IN [ok |-> synth.ok, self |-> [store.self EXCEPT !.regex = synth.regex]]

\* C4: when a definition can be built with pruning and without, the two
\* automata give every call the same outcome, and their regex texts match
\* the same words.
C4_PruningInvariance ==
    (pc = "done" /\ args.optimize /\ IsWellFormed(args) /\ Unpruned(args).ok) =>
        /\ Called => call.outcome = call_dfa(Unpruned(args).self, call.s)
        /\ Matches(repr(self)) = Matches(repr(Unpruned(args).self))

\* ------------------------------------------------------------------ C5
\* C5: an automaton built from a well-formed definition with no accepting
\* state has the regex text {} and returns False on every word over the
\* alphabet, the empty word included.
C5_NoAcceptingState ==
    (pc = "done" /\ IsWellFormed(args) /\ args.accepting = {}) =>
        /\ repr(self) = EMPTY_LANGUAGE
        /\ CalledOnWord => (call.outcome.kind = "return" /\ ~call.outcome.value)

\* ------------------------------------------------------------------ C6
\* The place of the first element of s that is not in the alphabet, 0 if none.
FirstInvalid(s, alphabet) ==
    IF \E k \in 1..Len(s) : s[k] \notin Range(alphabet)
    THEN CHOOSE k \in 1..Len(s) :
             /\ s[k] \notin Range(alphabet)
             /\ \A h \in 1..(k - 1) : s[h] \in Range(alphabet)
    ELSE 0

\* C6: a call on an input that holds a symbol not in the alphabet ends with
\* the alphabet error naming the first such symbol, raised when that symbol
\* is reached: nothing after it is read and no boolean is returned.
C6_FailFast ==
    (pc = "done" /\ IsWellFormed(args) /\ Called
        /\ FirstInvalid(call.s, args.alphabet) > 0) =>
        /\ call.outcome.kind = "ValueError"
        /\ call.outcome.sym = call.s[FirstInvalid(call.s, args.alphabet)]
        /\ call.outcome.read = FirstInvalid(call.s, args.alphabet)

\* ------------------------------------------------------------------ C7
\* C7: whatever calls have been made, returning or raising, the automaton
\* is as the constructor left it (matrix, initial index, accepting set,
\* regex text), so the last call's outcome is the one the automaton gave
\* right after construction and repr is the text stored then.
C7_CallLeavesAutomaton ==
    pc = "done" =>
        /\ self = built
        /\ repr(self) = built.regex
        /\ Called => call.outcome = call_dfa(built, call.s)

\* A call has raised the alphabet error on an automaton with two rows.
C7_Witness ==
    /\ pc = "done"
    /\ call.outcome.kind = "ValueError"
    /\ Len(self.trans_matrix) = 2
    /\ self = built

\* ------------------------------------------------------------------ C8
\* C8: when the initial state, a state or a symbol of a transition triple,
\* or an accepting state is not declared, the constructor raises (a
\* KeyError) at its first step and no automaton exists.
C8_UndeclaredRaises ==
    HasUndeclared(args) =>
        /\ pc \in {"init", "error"}
        /\ pc = "init" => ENABLED StoreFails /\ ~ENABLED StoreBuilt
        /\ pc = "error" => error = "KeyError"
        /\ self = NoSelf
        /\ built = NoSelf

\* The constructor has raised on a triple whose destination is undeclared.
C8_Witness ==
    /\ pc = "error"
    /\ error = "KeyError"
    /\ \E k \in 1..Len(args.transitions) : args.transitions[k][3] = UndeclaredState
    /\ self = NoSelf

\* ------------------------------------------------------------------ C9
\* C9: the absorption laws, on the operations the runs perform, text and
\* loosest_binding both compared: concat(empty_language, X) and
\* concat(X, empty_language) are empty_language; union(empty_language, X)
\* and concat(empty_string, X) are X; star(empty_language) and
\* star(empty_string) are empty_string.
C9_AbsorptionLaws ==
    last.op \in {"star", "concat", "union"} =>
        LET A == last.operands[1].regex
            B == last.operands[Len(last.operands)].regex
        IN /\ (last.op = "concat" /\ A = empty_language) => Top.regex = empty_language
           /\ (last.op = "concat" /\ B = empty_language) => Top.regex = empty_language
           /\ (last.op = "union" /\ A = empty_language) => Top.regex = B
           /\ (last.op = "concat" /\ A = empty_string) => Top.regex = B
           /\ (last.op = "star" /\ A = empty_language) => Top.regex = empty_string
           /\ (last.op = "star" /\ A = empty_string) => Top.regex = empty_string

\* concat(empty_language, X) has been applied to an X that is a union.
C9_Witness ==
    /\ last.op = "concat"
    /\ last.operands[1].regex = empty_language
    /\ last.operands[2].regex.loosest_binding = Op_UNION
    /\ Top.regex = empty_language

\* ----------------------------------------------------------------- C10
\* The top-level operator of a tree, as an _Operation.
TopOp(t) ==
    CASE t.op = "star" -> Op_STAR
      [] t.op = "cat" -> Op_CONCAT
      [] t.op = "alt" -> Op_UNION
      [] OTHER -> Op_NO_OP

\* The operand's text, in parentheses exactly when op binds tighter than
\* the operand's top-level operator.
Wrapped(e, op) ==
    IF op < TopOp(e.tree)
    THEN <<"(">> \o e.regex.string \o <<")">>
    ELSE e.regex.string

\* C10: whenever an operation joins its operands' texts (no sentinel
\* absorbs), each operand is in parentheses exactly when the operator
\* applied binds tighter than the operand's top-level operator, and never
\* when it is a bare symbol or a sentinel; and every expression's text,
\* read with star > concatenation > union, is the tree of the operations
\* that built it.
C10_Parenthesization ==
    /\ last.op = "star" =>
         LET A == last.operands[1]
         IN A.tree \notin {TEmpty, TEps} =>
              Top.regex.string = Wrapped(A, Op_STAR) \o <<"*">>
    /\ last.op = "concat" =>
         LET A == last.operands[1]
             B == last.operands[2]
         IN (A.tree \notin {TEmpty, TEps} /\ B.tree \notin {TEmpty, TEps}) =>
              Top.regex.string = Wrapped(A, Op_CONCAT) \o Wrapped(B, Op_CONCAT)
    /\ last.op = "union" =>
         LET A == last.operands[1]
             B == last.operands[2]
         IN (A.tree # TEmpty /\ B.tree # TEmpty) =>
              Top.regex.string = Wrapped(A, Op_UNION) \o <<"|">> \o Wrapped(B, Op_UNION)
    /\ \A k \in 1..Len(stack) :
         Parse(stack[k].regex.string) =
             Parsed(stack[k].tree, Len(stack[k].regex.string) + 1)

\* A concat has wrapped its union operand and left its star operand bare.
C10_Witness ==
    /\ last.op = "concat"
    /\ TopOp(last.operands[1].tree) = Op_UNION
    /\ TopOp(last.operands[2].tree) = Op_STAR
    /\ Top.regex.string = <<"(">> \o last.operands[1].regex.string \o <<")">>
                            \o last.operands[2].regex.string

\* ------------------------------------- claims about pruning and synthesis
\* The constructor has built the store and, if asked, pruned it.
Stored == pc \in {"gnfa", "elim", "done"}

Pruned == Stored /\ args.optimize

\* The store as lines 184-199 left it, before _remove_unreachables.
Before == BuildStore(args).self

\* The enumeration of a set of small integers in increasing order, as
\* CPython gives it.
Ascending(ord) == \A k \in 1..(Len(ord) - 1) : ord[k] < ord[k + 1]

\* ----------------------------------------------------------------- C11
\* C11: after pruning there is one row per retained state, every cell of
\* every row is an index below the number of retained states, and the state
\* that index was given to is the state the original transition led to
\* (stated for the runs that enumerate the reachable set in increasing
\* order).
C11_MatrixRenumbered ==
    (Pruned /\ Ascending(order)) =>
        /\ Len(self.trans_matrix) = Len(order)
        /\ \A k \in 1..Len(self.trans_matrix) :
             \A j \in 1..Len(self.trans_matrix[k]) :
                /\ self.trans_matrix[k][j] \in 0..(Len(order) - 1)
                /\ At(order, self.trans_matrix[k][j]) = At(Before.trans_matrix, order[k])[j]

\* ----------------------------------------------------------------- C12
\* C12: after pruning, whatever the order in which the reachable set was
\* enumerated, the initial index is the one given to the originally initial
\* state and its row is that state's row, and an index is accepting exactly
\* when the state it was given to was accepting.
C12_InitialAndAcceptingRemapped ==
    Pruned =>
        /\ self.initial \in 0..(Len(order) - 1)
        /\ At(order, self.initial) = Before.initial
        /\ At(self.trans_matrix, self.initial) = At(Before.trans_matrix, Before.initial)
        /\ self.accepting \subseteq 0..(Len(order) - 1)
        /\ \A k \in 0..(Len(order) - 1) :
             k \in self.accepting <=> At(order, k) \in Before.accepting

\* ----------------------------------------------------------------- C13
\* The states reachable from the states of S by zero or more transitions.
RECURSIVE Closure(_, _)
Closure(trans_matrix, S) ==
    LET T == S \cup {At(trans_matrix, i)[j] :
                      i \in S, j \in 1..Len(trans_matrix[1])}
    IN IF T = S THEN S ELSE Closure(trans_matrix, T)

Cells(trans_matrix) == Len(trans_matrix) * Len(trans_matrix[1])

\* C13: the traversal ends, after at most one pass per matrix cell and one
\* for the initial index, and the set it hands to _update_states is the set
\* of the states reachable from the initial index by zero or more
\* transitions (the set that Reachable computes in one step).
C13_TraversalTerminatesExact ==
    /\ <>(pc = "pruned")
    /\ [](pops <= 1 + Cells(Before.trans_matrix))
    /\ [](pc = "pruned" =>
            /\ reachable = Closure(Before.trans_matrix, {Before.initial})
            /\ reachable = Reachable(Before)
            /\ Range(order) = reachable)

\* A traversal has ended in which some state was popped more than once and
\* some state was found unreachable.
C13_Witness ==
    /\ pc = "pruned"
    /\ pops > Cardinality(reachable)
    /\ Cardinality(reachable) >= 2
    /\ Cardinality(reachable) < Len(Before.trans_matrix)

\* ----------------------------------------------------------------- C14
\* The GNFA states not yet eliminated: the original states from rip on.
Live == rip..(Len(self.trans_matrix) - 1)

Start == Len(self.trans_matrix)

Accept == Len(self.trans_matrix) + 1

\* The edge function holds an edge i -> j.
HasEdge(i, j) == j \in DOMAIN At(gnfa_func, i)

\* C14: from the end of GNFA building to the last elimination step, for
\* every state j not yet eliminated (accept included) and every state i not
\* yet eliminated (start included), i is recorded in reverse_edges[j]
\* exactly when gnfa_func holds the edge i -> j (so start is recorded for
\* the initial state), and every predecessor recorded for the state about
\* to be eliminated has an edge into it.
C14_ReverseAdjacency ==
    (pc = "elim" /\ Ascending(order)) =>
        /\ \A j \in Live \cup {Accept} :
             \A i \in Live \cup {Start} :
                i \in At(reverse_edges, j) <=> HasEdge(i, j)
        /\ rip < Start =>
             \A i \in At(reverse_edges, rip) \ {rip} : HasEdge(i, rip)

\* ----------------------------------------------------------------- C15
\* The label of the edge i -> j.
Edge(i, j) == At(gnfa_func, i)[j]

\* The text holds the character c.
Holds(text, c) == \E k \in 1..Len(text) : text[k] = c

C16_NoEdgeToEliminated ==
    /\ []((pc = "elim" /\ Ascending(order)) =>
            /\ \A i \in Live \cup {Start} :
                 DOMAIN At(gnfa_func, i) \cap (0..(rip - 1)) = {}
            /\ rip = Start => DOMAIN At(gnfa_func, Start) \subseteq {Accept})
    /\ [][(pc = "elim" /\ pc' = "done") =>
            repr(self') = IF HasEdge(Start, Accept)
                          THEN Edge(Start, Accept).string
                          ELSE EMPTY_LANGUAGE]_vars

\* ----------------------------------------------------------------- C17
\* The outcome of the loop of lines 164-177 from the GNFA that lines
\* 141-156 build, when every pass enumerates its sets in one fixed order.
Canon ==
    RipAll(BuildGnfaFunc(self, args.alphabet), BuildReverseEdges(self), 0, Start)

\* C17: in whatever orders the passes have enumerated the predecessors of
\* the eliminated states and their successors, the text that line 177
\* returns is the text of the fixed order; and a pass raises, in some
\* order, only if the fixed order raises.
C17_Reproducible ==
    pc = "elim" =>
        /\ rip = Start => (Canon.ok /\ FinalRegex(gnfa_func) = Canon.regex)
        /\ rip < Start =>
             \A iOrder \in Orders(At(reverse_edges, rip) \ {rip}),
                jOrder \in Orders(DOMAIN At(gnfa_func, rip) \ {rip}) :
                ~Eliminate(gnfa_func, reverse_edges, rip, iOrder, jOrder).ok
                    => ~Canon.ok

\* A construction has ended whose first pass had two predecessors and two
\* successors to enumerate, and whose text is not a sentinel.
C17_Witness ==
    /\ pc = "done"
    /\ Cardinality(At(BuildReverseEdges(self), 0) \ {0}) >= 2
    /\ Cardinality(DOMAIN At(BuildGnfaFunc(self, args.alphabet), 0) \ {0}) >= 2
    /\ repr(self) \notin {EMPTY_LANGUAGE, EMPTY_STRING}

\* ----------------------------------------------------------------- C18
\* The edges of the GNFA, as pairs <<i, j>>.
Edges ==
    UNION {{<<t - 1, j>> : j \in DOMAIN gnfa_objs[t]} : t \in 1..Len(gnfa_objs)}

\* The object that labels the edge e.
ObjOf(e) == At(gnfa_objs, e[1])[e[2]]

\* C18: concat and union leave their argument as it was; no two edges are
\* labelled by one object; every object holds the label that the edge has
\* when each operation yields a value of its own, so no update of an edge
\* has changed the label of another; and within a pass the starred self
\* loop and the labels of the edges leaving rip had the same attributes
\* for every predecessor processed.
C18_NoAliasing ==
    pc = "elim" =>
        /\ \A x \in DOMAIN objects, y \in DOMAIN objects :
             x # y => /\ ObjConcat(objects, x, y)[y] = objects[y]
                      /\ ObjUnion(objects, x, y)[y] = objects[y]
        /\ \A e \in Edges, f \in Edges : ObjOf(e) = ObjOf(f) => e = f
        /\ \A i \in 0..Accept : DOMAIN At(gnfa_objs, i) = DOMAIN At(gnfa_func, i)
        /\ \A e \in Edges : objects[ObjOf(e)] = Edge(e[1], e[2])
        /\ stable

\* A pass has stored a copy as the label of a new edge and has united the
\* object of an edge that GNFA building created with a contribution that
\* passed through a starred self loop.
C18_Witness ==
    /\ pc = "elim"
    /\ rip >= 1
    /\ \E e \in Edges : ObjOf(e)[1] = 170
    /\ \E e \in Edges :
         /\ ObjOf(e)[1] = 151
         /\ objects[ObjOf(e)].loosest_binding = Op_UNION
         /\ Holds(objects[ObjOf(e)].string, "*")

\* ----------------------------------------------------------------- C19
\* The pairs (state, symbol) in declaration order, as positions 1..n*m.
PairState(a, p) == a.states[((p - 1) \div Len(a.alphabet)) + 1]

PairSymbol(a, p) == a.alphabet[((p - 1) % Len(a.alphabet)) + 1]

Declares(a, p) ==
    \E k \in 1..Len(a.transitions) :
        a.transitions[k][1] = PairState(a, p) /\ a.transitions[k][2] = PairSymbol(a, p)

\* Every reference is declared, no pair has two triples, some pair has none.
IsIncomplete(a) ==
    /\ ~HasUndeclared(a)
    /\ \A k \in 1..Len(a.transitions), h \in 1..Len(a.transitions) :
         (a.transitions[k][1] = a.transitions[h][1]
             /\ a.transitions[k][2] = a.transitions[h][2]) => k = h
    /\ \E p \in 1..(Len(a.states) * Len(a.alphabet)) : ~Declares(a, p)

\* The definition with a triple to the first declared state for every pair
\* that has none.
Completion(a) ==
    [a EXCEPT !.transitions =
        [p \in 1..(Len(a.states) * Len(a.alphabet)) |->
            IF Declares(a, p)
            THEN CHOOSE t \in Range(a.transitions) :
                     t[1] = PairState(a, p) /\ t[2] = PairSymbol(a, p)
            ELSE <<PairState(a, p), PairSymbol(a, p), a.states[1]>>]]

\* The words of length <= MaxLen over the alphabet.
Words(alphabet) == UNION {[1..n -> Range(alphabet)] : n \in 0..MaxLen}

\* C19: a definition whose transition list is incomplete is built without
\* error, and its calls and its regex text are those of the declared
\* triples with every missing pair leading to the first declared state
\* (stated for the runs that enumerate the reachable set in increasing
\* order).
C19_IncompleteDefaultsToFirst ==
    (IsIncomplete(args) /\ Ascending(order)) =>
        /\ pc # "error"
        /\ (pc = "done" /\ CalledOnWord) =>
             /\ call.outcome.kind = "return"
             /\ call.outcome.value = DeclaredAccepts(Completion(args), call.s)
        /\ pc = "done" =>
             /\ Parse(repr(self)).ok
             /\ Matches(repr(self)) =
                  {w \in Words(args.alphabet) : DeclaredAccepts(Completion(args), w)}

=============================================================================
